---- MODULE Spec2Model ----
(***************************************************************************)
(* Model of the workflow engine of claude-code-auto:                       *)
(*   - WorkflowOrchestrator (src/src/engine/workflow-orchestrator.ts):     *)
(*     start() with its phases, submitApproval(), cancel(), reset(),       *)
(*     emit(), getSummary(), getStepStatus();                              *)
(*   - AgentExecutor (agent-executor.ts, second half of                    *)
(*     src/unnamed/part_004): executePlanner, executeCoder with the        *)
(*     self-healing loop, executeReviewer, approvePlan, rejectPlan,        *)
(*     requestRevision;                                                    *)
(*   - SkillExecutor.executeCommit (src/unnamed/part_003).                 *)
(*                                                                         *)
(* start() is an async function.  Control leaves it at every await and,    *)
(* because listeners run synchronously inside emit() and may call the      *)
(* public methods, at every emit.  pc is the position of start(); each     *)
(* engine action is the code between two such points.  cancel(),           *)
(* submitApproval() and reset() are the calls a caller or a listener may   *)
(* make at any of these points.                                            *)
(*                                                                         *)
(* The AgentExecutor has two modes (config.simulate).  The orchestrator's  *)
(* constructor leaves the flag at its default (true); the other mode is    *)
(* the one in which stages call the completion service and the            *)
(* validation tools and therefore can fail.  Both are modelled; the mode   *)
(* is chosen in Init.  The SkillExecutor has the same two modes and the    *)
(* constructor passes simulate: true; the commit stage runs in the mode    *)
(* chosen in Init as well, so that its real mode, the one in which a       *)
(* commit can fail, is covered.                                            *)
(***************************************************************************)
EXTENDS Integers, Sequences, FiniteSets, TLC

\* ---------------------------------------------------------------- bounds
MaxRuns == 2            \* start() calls on one orchestrator instance
MaxCalls == 2           \* cancel()/submitApproval()/reset() calls on it
MaxCfgHealing == 4      \* largest maxHealingAttempts of a WorkflowConfig
MaxExecHealing == 4     \* largest maxHealingAttempts of an AgentExecutorConfig
MaxListeners == 2       \* listeners registered at one time
MaxEmits == 2           \* emit() calls dispatched to registered listeners

\* ------------------------------------------------------ program constants
DefaultMaxHealingAttempts == 3

\* JavaScript's undefined, for optional string fields
Undefined == "<undefined>"

DefaultRejectionMessage == "rejected by user"
PlanCreatedMessage == "plan created"

\* feedback arguments of submitApproval(approved, feedback?)
Feedbacks == {Undefined, "", "out of scope"}

\* the responses a caller hands to submitApproval
Responses ==
  {[approved |-> TRUE, feedback |-> Undefined]} \cup
  {[approved |-> FALSE, feedback |-> f] : f \in Feedbacks}

\* ------------------------------------------------------------ data model
NoPlan ==
  [role |-> "planner", present |-> FALSE, success |-> FALSE, approvalStatus |-> "pending",
   message |-> Undefined, rejectionReason |-> Undefined, error |-> Undefined]

NoImplementation ==
  [role |-> "coder", present |-> FALSE, success |-> FALSE, healingAttempts |-> 0,
   nextStep |-> Undefined, passed |-> FALSE, typeCheck |-> FALSE,
   lint |-> FALSE, error |-> Undefined]

NoReview ==
  [role |-> "reviewer", present |-> FALSE, success |-> FALSE, decision |-> "rejected",
   error |-> Undefined]

NoCommit == [present |-> FALSE, success |-> FALSE, error |-> Undefined]

\* this.context = null
NullContext ==
  [live |-> FALSE, status |-> "idle", currentStep |-> "init",
   planner |-> NoPlan, coder |-> NoImplementation, reviewer |-> NoReview,
   commit |-> NoCommit, completedAt |-> 0, error |-> Undefined]

createContext == [NullContext EXCEPT !.live = TRUE]

NoPromise == [state |-> "none", approved |-> FALSE, feedback |-> Undefined]

NoSummary ==
  [returned |-> FALSE, status |-> "idle",
   steps |-> [plan |-> "pending", implement |-> "pending",
              review |-> "pending", commit |-> "pending"],
   error |-> Undefined]

NoCall == [op |-> "none", approved |-> FALSE, feedback |-> Undefined]

\* nothing dispatched yet: one inbox per registered listener, the exceptions the catch of
\* emit() has seen, the ones it has not, and the process the engine runs in
NoDelivery == [inbox |-> <<>>, caught |-> 0, uncaught |-> 0, process |-> "running"]

Ev(type, tag) == [type |-> type, tag |-> tag]

BoolTag(b) == IF b THEN "true" ELSE "false"

\* ------------------------------------------------- plan state transitions
approvePlan(plan) == [plan EXCEPT !.approvalStatus = "approved"]

\* rejectPlan that forgets to record the reason
rejectPlanWithoutReason(plan, reason) ==
  [plan EXCEPT !.approvalStatus = "rejected",
               !.message = IF reason = Undefined \/ reason = ""
                           THEN DefaultRejectionMessage ELSE reason]

\* message: reason || default  (an empty reason is falsy);  rejectionReason: reason
rejectPlan(plan, reason) ==
  [plan EXCEPT !.approvalStatus = "rejected",
               !.message = IF reason = Undefined \/ reason = ""
                           THEN DefaultRejectionMessage ELSE reason,
               !.rejectionReason = reason]

\* requestRevision that adds the feedback to the message already there
requestRevisionAppending(plan, feedback) ==
  [plan EXCEPT !.approvalStatus = "needs_revision", !.message = @ \o feedback]

requestRevision(plan, feedback) ==
  [plan EXCEPT !.approvalStatus = "needs_revision", !.message = feedback]

\* ---------------------------------------------------------------- summary
ResultStatus(result) ==
  IF ~result.present THEN "pending"
  ELSE IF result.success THEN "completed" ELSE "failed"

\* getStepStatus that treats the commit step like the others: pending when it has no result
getStepStatusUniform(ctx, cfg, step) ==
  IF ~ctx.live THEN "pending"
  ELSE IF step = "commit" THEN ResultStatus(ctx.commit)
  ELSE IF step = "plan" THEN ResultStatus(ctx.planner)
  ELSE IF step = "implement" THEN ResultStatus(ctx.coder)
  ELSE ResultStatus(ctx.reviewer)

getStepStatus(ctx, cfg, step) ==
  IF ~ctx.live THEN "pending"
  ELSE IF step = "commit"
       THEN IF ~ctx.commit.present
            THEN (IF cfg.autoCommit THEN "pending" ELSE "skipped")
            ELSE (IF ctx.commit.success THEN "completed" ELSE "failed")
       ELSE IF step = "plan" THEN ResultStatus(ctx.planner)
       ELSE IF step = "implement" THEN ResultStatus(ctx.coder)
       ELSE ResultStatus(ctx.reviewer)

getSummary(ctx, cfg) ==
  [returned |-> TRUE, status |-> ctx.status,
   steps |-> [plan |-> getStepStatus(ctx, cfg, "plan"),
              implement |-> getStepStatus(ctx, cfg, "implement"),
              review |-> getStepStatus(ctx, cfg, "review"),
              commit |-> getStepStatus(ctx, cfg, "commit")],
   error |-> ctx.error]

\* emit(): nothing is delivered when there is no context
Emit(ctx, evs, type, tag) ==
  IF ctx.live THEN Append(evs, Ev(type, tag)) ELSE evs

\* ------------------------------------------------------------------ state
VARIABLES
  config,            \* WorkflowOrchestrator.config
  context,           \* WorkflowOrchestrator.context
  approvalResolver,  \* TRUE when WorkflowOrchestrator.approvalResolver is set
  approvalPromise,   \* the promise the resolver settles
  events,            \* events delivered to the listeners for the current workflow id
  pc,                \* position of start()
  summary,           \* value start() resolved with
  execConfig,        \* AgentExecutor.config
  execStatus,        \* AgentExecutor.status
  currentAgent,      \* AgentExecutor.currentAgent
  epc,               \* position of the executor call in flight
  attempts,          \* executeCoder: local attempts
  validation,        \* executeCoder: local validationResults
  result,            \* value the executor call resolves with
  thrown,            \* error the executor call rejects with
  runs,              \* number of start() calls made
  calls,             \* number of cancel()/submitApproval()/reset() calls made
  lastCall,          \* the public method called by the last step, if any
  written,           \* executeCoder: the attempt whose file changes the working directory holds
  listeners,         \* WorkflowOrchestrator.listeners: what each listener does with an event
  delivery           \* what the forEach of emit() has done so far

engineVars == <<context, approvalResolver, approvalPromise, events, pc, summary>>
execVars == <<execStatus, currentAgent, epc, attempts, validation, result, thrown,
              written>>

\* a step of the executor: the engine and the callers do nothing
ExecutorFrame ==
  /\ lastCall' = [op |-> "none", approved |-> FALSE, feedback |-> "<undefined>"]
  /\ UNCHANGED <<config, execConfig, context, approvalResolver, approvalPromise,
                 events, pc, summary, runs, calls, listeners, delivery>>
vars == <<config, context, approvalResolver, approvalPromise, events, pc, summary,
          execConfig, execStatus, currentAgent, epc, attempts, validation, result,
          thrown, runs, calls, lastCall, listeners, delivery, written>>

NoResult == [role |-> "none"]
NoValidation ==
  [ran |-> FALSE, testsPassed |-> FALSE, typeCheckPassed |-> FALSE,
   lintPassed |-> FALSE, passed |-> FALSE, typeCheck |-> FALSE, lint |-> FALSE,
   details |-> Undefined, validated |-> 0]
NoError == "<none>"

\* ================================================================ executor
\* ---- planner
\* text returned by the completion call, reduced to what the parser looks for
PlanTexts == [foundTitle : BOOLEAN, affectedFiles : 0..1, phases : 0..1]

PlanParseError == "cannot extract plan information from markdown"
ReviewParseError == "cannot extract review information from markdown"
LlmError == "completion call failed"

parsePlannerResponseFromMarkdown(text) ==
  LET hasAnyContent == text.foundTitle \/ text.affectedFiles > 0 \/ text.phases > 0
  IN  IF ~hasAnyContent
      THEN [role |-> "planner", present |-> TRUE, success |-> FALSE,
            approvalStatus |-> "pending", message |-> "plan parse failed",
            rejectionReason |-> Undefined, error |-> PlanParseError]
      ELSE [role |-> "planner", present |-> TRUE, success |-> TRUE,
            approvalStatus |-> "pending", message |-> PlanCreatedMessage,
            rejectionReason |-> Undefined, error |-> Undefined]

simulatePlannerExecution ==
  [role |-> "planner", present |-> TRUE, success |-> TRUE,
   approvalStatus |-> "pending", message |-> PlanCreatedMessage,
   rejectionReason |-> Undefined, error |-> Undefined]

\* executePlanner up to its first await
executePlannerEnter ==
  /\ execStatus' = "running"
  /\ currentAgent' = "planner"
  /\ epc' = "planner"
  /\ result' = NoResult
  /\ thrown' = NoError
  /\ UNCHANGED <<attempts, validation, written>>

\* executePlanner, simulate mode: the delay elapses
PlannerSimulated ==
  /\ ExecutorFrame
  /\ epc = "planner"
  /\ execConfig.simulate
  /\ result' = simulatePlannerExecution
  /\ execStatus' = "waiting_approval"
  /\ epc' = "done"
  /\ UNCHANGED <<currentAgent, attempts, validation, thrown, written>>

\* executePlanner: the completion call returns text, which is parsed
PlannerCompletes ==
  /\ ExecutorFrame
  /\ epc = "planner"
  /\ ~execConfig.simulate
  /\ \E text \in PlanTexts : result' = parsePlannerResponseFromMarkdown(text)
  /\ execStatus' = "waiting_approval"
  /\ epc' = "done"
  /\ UNCHANGED <<currentAgent, attempts, validation, thrown, written>>

\* executePlanner: building the prompt or the completion call fails
PlannerThrows ==
  /\ ExecutorFrame
  /\ epc = "planner"
  /\ ~execConfig.simulate
  /\ execStatus' = "failed"
  /\ thrown' = LlmError
  /\ epc' = "threw"
  /\ UNCHANGED <<currentAgent, attempts, validation, result, written>>

\* ---- coder
NoPlanError == "Coder requires an approved plan"
NotApprovedError == "Plan must be approved before execution"

\* a precondition check that lets a Plan awaiting revision through
CoderPreconditionLenient(plan) ==
  IF ~plan.present THEN NoPlanError
  ELSE IF plan.approvalStatus \in {"pending", "rejected"} THEN NotApprovedError
  ELSE NoError

\* the two precondition checks of executeCoder
CoderPrecondition(plan) ==
  IF ~plan.present THEN NoPlanError
  ELSE IF plan.approvalStatus # "approved" THEN NotApprovedError
  ELSE NoError

\* executeCoder up to its first await
executeCoderEnter(plan) ==
  IF CoderPrecondition(plan) # NoError
  THEN /\ thrown' = CoderPrecondition(plan)
       /\ epc' = "threw"
       /\ result' = NoResult
       /\ UNCHANGED <<execStatus, currentAgent, attempts, validation, written>>
  ELSE /\ execStatus' = "running"
       /\ currentAgent' = "coder"
       /\ attempts' = 0
       /\ validation' = NoValidation
       /\ written' = 0
       /\ result' = NoResult
       /\ thrown' = NoError
       /\ epc' = "coder_attempt"

simulateCoderExecution(attempt, random) ==
  LET passed == attempt > 1 \/ random
  IN  [role |-> "coder", present |-> TRUE, success |-> passed,
       healingAttempts |-> attempt,
       nextStep |-> IF passed THEN "reviewer" ELSE Undefined,
       passed |-> passed, typeCheck |-> TRUE, lint |-> TRUE, error |-> Undefined]

\* details of a validation run: the counts of the three tools, or the message of the
\* exception one of them raised
ToolCounts == "tests, type errors, lint errors"
ToolException == "validation tool failed"

\* runValidation whose pass flag is the verdict of the test run alone
runValidationTestsOnly(disk, tests, typeCheck, lint, toolThrows) ==
  IF toolThrows
  THEN [ran |-> TRUE, testsPassed |-> FALSE, typeCheckPassed |-> FALSE,
        lintPassed |-> FALSE, passed |-> FALSE, typeCheck |-> FALSE, lint |-> FALSE,
        details |-> ToolException, validated |-> disk]
  ELSE [ran |-> TRUE, testsPassed |-> tests, typeCheckPassed |-> typeCheck,
        lintPassed |-> lint, passed |-> tests,
        typeCheck |-> typeCheck, lint |-> lint, details |-> ToolCounts,
        validated |-> disk]

\* runValidation: three verdicts; an exception of a tool yields all false
runValidation(disk, tests, typeCheck, lint, toolThrows) ==
  IF toolThrows
  THEN [ran |-> TRUE, testsPassed |-> FALSE, typeCheckPassed |-> FALSE,
        lintPassed |-> FALSE, passed |-> FALSE, typeCheck |-> FALSE, lint |-> FALSE,
        details |-> ToolException, validated |-> disk]
  ELSE [ran |-> TRUE, testsPassed |-> tests, typeCheckPassed |-> typeCheck,
        lintPassed |-> lint, passed |-> (tests /\ typeCheck /\ lint),
        typeCheck |-> typeCheck, lint |-> lint, details |-> ToolCounts,
        validated |-> disk]

parseCoderResponse(attempt, validationResults) ==
  LET passed == IF validationResults.ran THEN validationResults.passed ELSE TRUE
  IN  [role |-> "coder", present |-> TRUE, success |-> passed,
       healingAttempts |-> attempt,
       nextStep |-> IF passed THEN "reviewer" ELSE "coder",
       passed |-> passed,
       typeCheck |-> IF validationResults.ran THEN validationResults.typeCheck ELSE TRUE,
       lint |-> IF validationResults.ran THEN validationResults.lint ELSE TRUE,
       error |-> Undefined]

\* parsed.fileChanges.length > 0: the responses generated here hold a file change
ParsedFileChanges == {TRUE}

\* applyFileChanges, called when the generated text holds file changes: the working
\* directory then holds the files of this attempt
applyFileChanges(disk, attempt, hasFileChanges) ==
  IF hasFileChanges THEN attempt ELSE disk

\* the loop tail with the exhaustion test off by one (attempts > max)
LoopExitOffByOne(res, attempt) ==
  IF res.passed
  THEN /\ result' = res
       /\ execStatus' = IF res.success THEN "completed" ELSE "failed"
       /\ epc' = "done"
  ELSE IF attempt > execConfig.maxHealingAttempts
  THEN /\ result' = [res EXCEPT !.nextStep = "user_intervention"]
       /\ execStatus' = IF res.success THEN "completed" ELSE "failed"
       /\ epc' = "done"
  ELSE /\ result' = res
       /\ execStatus' = execStatus
       /\ epc' = "coder_attempt"

\* the tail of the do-while body: break on pass, break on exhaustion, else loop
LoopExit(res, attempt) ==
  IF res.passed
  THEN /\ result' = res
       /\ execStatus' = IF res.success THEN "completed" ELSE "failed"
       /\ epc' = "done"
  ELSE IF attempt >= execConfig.maxHealingAttempts
  THEN /\ result' = [res EXCEPT !.nextStep = "user_intervention"]
       /\ execStatus' = IF res.success THEN "completed" ELSE "failed"
       /\ epc' = "done"
  ELSE /\ result' = res
       /\ execStatus' = execStatus
       /\ epc' = "coder_attempt"

\* one iteration of the loop in simulate mode
CoderSimulateAttempt ==
  /\ ExecutorFrame
  /\ epc = "coder_attempt"
  /\ execConfig.simulate
  /\ attempts' = attempts + 1
  /\ \E random \in BOOLEAN :
       LoopExit(simulateCoderExecution(attempts + 1, random), attempts + 1)
  /\ UNCHANGED <<currentAgent, validation, thrown, written>>

\* one iteration, real mode, with the file changes of the generated text written before
\* validation runs
CoderGenerateApplyingFirst ==
  /\ ExecutorFrame
  /\ epc = "coder_attempt"
  /\ ~execConfig.simulate
  /\ attempts' = attempts + 1
  /\ epc' = "coder_validate"
  /\ written' = attempts + 1
  /\ UNCHANGED <<execStatus, currentAgent, validation, result, thrown>>

\* one iteration, real mode: the completion call returns the implementation text
CoderGenerate ==
  /\ ExecutorFrame
  /\ epc = "coder_attempt"
  /\ ~execConfig.simulate
  /\ attempts' = attempts + 1
  /\ epc' = "coder_validate"
  /\ UNCHANGED <<execStatus, currentAgent, validation, result, thrown, written>>

\* one iteration, real mode: reading files, building the prompt or the completion call fails
CoderGenerateThrows ==
  /\ ExecutorFrame
  /\ epc = "coder_attempt"
  /\ ~execConfig.simulate
  /\ attempts' = attempts + 1
  /\ execStatus' = "failed"
  /\ thrown' = LlmError
  /\ epc' = "threw"
  /\ UNCHANGED <<currentAgent, validation, result, written>>

\* runValidation() returns
CoderValidate ==
  /\ ExecutorFrame
  /\ epc = "coder_validate"
  /\ \E tests \in BOOLEAN, typeCheck \in BOOLEAN, lint \in BOOLEAN, toolThrows \in BOOLEAN :
       validation' = runValidation(written, tests, typeCheck, lint, toolThrows)
  /\ epc' = "coder_apply"
  /\ UNCHANGED <<execStatus, currentAgent, attempts, result, thrown, written>>

\* parseCoderResponse() returns and the loop decides
CoderApply ==
  /\ ExecutorFrame
  /\ epc = "coder_apply"
  /\ \E hasFileChanges \in ParsedFileChanges :
       written' = applyFileChanges(written, attempts, hasFileChanges)
  /\ LoopExit(parseCoderResponse(attempts, validation), attempts)
  /\ UNCHANGED <<currentAgent, attempts, validation, thrown>>

\* ---- reviewer
Decisions == {"approved", "conditional", "rejected"}
ReviewTexts == [hasReviewContent : BOOLEAN, decision : Decisions]

NoImplementationError == "Reviewer requires implementation result"

parseReviewerResponseFromMarkdown(text) ==
  IF ~text.hasReviewContent
  THEN [role |-> "reviewer", present |-> TRUE, success |-> FALSE,
        decision |-> "rejected", error |-> ReviewParseError]
  ELSE [role |-> "reviewer", present |-> TRUE, success |-> TRUE,
        decision |-> text.decision, error |-> Undefined]

simulateReviewerExecution ==
  [role |-> "reviewer", present |-> TRUE, success |-> TRUE,
   decision |-> "approved", error |-> Undefined]

executeReviewerEnter(implementation) ==
  IF ~implementation.present
  THEN /\ thrown' = NoImplementationError
       /\ epc' = "threw"
       /\ result' = NoResult
       /\ UNCHANGED <<execStatus, currentAgent, attempts, validation, written>>
  ELSE /\ execStatus' = "running"
       /\ currentAgent' = "reviewer"
       /\ epc' = "reviewer"
       /\ result' = NoResult
       /\ thrown' = NoError
       /\ UNCHANGED <<attempts, validation, written>>

ReviewerSimulated ==
  /\ ExecutorFrame
  /\ epc = "reviewer"
  /\ execConfig.simulate
  /\ result' = simulateReviewerExecution
  /\ execStatus' = "completed"
  /\ epc' = "done"
  /\ UNCHANGED <<currentAgent, attempts, validation, thrown, written>>

ReviewerCompletes ==
  /\ ExecutorFrame
  /\ epc = "reviewer"
  /\ ~execConfig.simulate
  /\ \E text \in ReviewTexts : result' = parseReviewerResponseFromMarkdown(text)
  /\ execStatus' = "completed"
  /\ epc' = "done"
  /\ UNCHANGED <<currentAgent, attempts, validation, thrown, written>>

ReviewerThrows ==
  /\ ExecutorFrame
  /\ epc = "reviewer"
  /\ ~execConfig.simulate
  /\ execStatus' = "failed"
  /\ thrown' = LlmError
  /\ epc' = "threw"
  /\ UNCHANGED <<currentAgent, attempts, validation, result, written>>

\* the executor call is settled and its locals are gone
executorSettled ==
  /\ epc' = "idle"
  /\ attempts' = 0
  /\ validation' = NoValidation
  /\ written' = 0
  /\ result' = NoResult
  /\ thrown' = NoError
  /\ UNCHANGED <<execStatus, currentAgent>>

\* ================================================================== engine
\* a step of start(): no public method is called
EngineFrame ==
  /\ lastCall' = NoCall
  /\ UNCHANGED <<config, execConfig, runs, calls, listeners, delivery>>

\* a TypeError on this.context inside try, and again inside catch: start() rejects
Reject ==
  /\ pc' = "rejected"
  /\ UNCHANGED <<context, events, summary, approvalResolver, approvalPromise>>

\* new Date() written to completedAt: a value different from the one it replaces
Stamp(ctx) == ctx.completedAt + 1

\* a catch block that records the error but leaves the status as it was
CatchKeepingStatus(ctx, evs, message) ==
  IF ~ctx.live
  THEN /\ pc' = "rejected"
       /\ context' = ctx
       /\ events' = evs
  ELSE /\ context' = [ctx EXCEPT !.error = message]
       /\ events' = Append(evs, Ev("workflow:failed", message))
       /\ pc' = "failed_emitted"

\* the catch block of start()
Catch(ctx, evs, message) ==
  IF ~ctx.live
  THEN /\ pc' = "rejected"
       /\ context' = ctx
       /\ events' = evs
  ELSE /\ context' = [ctx EXCEPT !.status = "failed", !.error = message]
       /\ events' = Append(evs, Ev("workflow:failed", message))
       /\ pc' = "failed_emitted"

\* runImplementationPhase up to its first emit
ImplementationBegin(ctx, evs) ==
  /\ context' = [ctx EXCEPT !.status = "implementing", !.currentStep = "implement"]
  /\ events' = Append(evs, Ev("agent:started", "coder"))
  /\ pc' = "coder_started"

\* a completion block that sets the status without emitting workflow:completed
CompleteWithoutEvent(ctx, evs) ==
  /\ context' = [ctx EXCEPT !.status = "completed", !.completedAt = Stamp(ctx),
                            !.currentStep = "complete"]
  /\ events' = evs
  /\ pc' = "completed_emitted"

\* the completion block of start()
Complete(ctx, evs) ==
  /\ context' = [ctx EXCEPT !.status = "completed", !.completedAt = Stamp(ctx),
                            !.currentStep = "complete"]
  /\ events' = Append(evs, Ev("workflow:completed", "none"))
  /\ pc' = "completed_emitted"

\* start(): create the context and emit workflow:started
Start ==
  /\ pc \in {"idle", "returned", "rejected"}
  /\ runs < MaxRuns
  /\ runs' = runs + 1
  /\ context' = createContext
  /\ events' = <<Ev("workflow:started", "none")>>
  /\ summary' = NoSummary
  /\ pc' = "started"
  /\ lastCall' = NoCall
  /\ UNCHANGED <<config, execConfig, calls, approvalResolver, approvalPromise, execVars,
                 listeners, delivery>>

\* runPlanningPhase up to emit agent:started
RunPlanningPhase ==
  /\ pc = "started"
  /\ EngineFrame
  /\ UNCHANGED execVars
  /\ IF ~context.live THEN Reject
     ELSE /\ context' = [context EXCEPT !.status = "planning", !.currentStep = "plan"]
          /\ events' = Append(events, Ev("agent:started", "planner"))
          /\ pc' = "planner_started"
          /\ UNCHANGED <<summary, approvalResolver, approvalPromise>>

\* runPlanningPhase: build the input and call executePlanner
CallExecutePlanner ==
  /\ pc = "planner_started"
  /\ EngineFrame
  /\ IF ~context.live THEN Reject /\ UNCHANGED execVars
     ELSE /\ executePlannerEnter
          /\ pc' = "planner_call"
          /\ UNCHANGED <<context, events, summary, approvalResolver, approvalPromise>>

\* runPlanningPhase after await executePlanner
PlannerReturns ==
  /\ pc = "planner_call"
  /\ epc = "done"
  /\ EngineFrame
  /\ executorSettled
  /\ UNCHANGED <<summary, approvalResolver, approvalPromise>>
  /\ IF ~context.live THEN pc' = "rejected" /\ UNCHANGED <<context, events>>
     ELSE /\ context' = [context EXCEPT !.planner = result]
          /\ IF result.success
             THEN /\ events' = Append(events, Ev("agent:completed", "planner"))
                  /\ pc' = "planner_done"
             ELSE /\ events' = Append(events, Ev("agent:failed", "planner"))
                  /\ pc' = "planner_failed"

\* a stage call rejected: the exception reaches the catch block of start()
StageThrows ==
  /\ pc \in {"planner_call", "coder_call", "reviewer_call"}
  /\ epc = "threw"
  /\ EngineFrame
  /\ executorSettled
  /\ UNCHANGED <<summary, approvalResolver, approvalPromise>>
  /\ Catch(context, events, thrown)

\* throw new Error(result.error || '<Phase> failed') after agent:failed
StageFailed ==
  /\ pc \in {"planner_failed", "coder_failed", "reviewer_failed"}
  /\ EngineFrame
  /\ UNCHANGED execVars
  /\ UNCHANGED <<summary, approvalResolver, approvalPromise>>
  /\ LET res == IF pc = "planner_failed" THEN context.planner
                ELSE IF pc = "coder_failed" THEN context.coder
                ELSE context.reviewer
         fallback == IF pc = "planner_failed" THEN "Planning failed"
                     ELSE IF pc = "coder_failed" THEN "Implementation failed"
                     ELSE "Review failed"
     IN  Catch(context, events, IF res.error = Undefined THEN fallback ELSE res.error)

\* the approval phase emitting approval:requested before the resolver is installed
AfterPlanningEmitFirst ==
  /\ pc = "planner_done"
  /\ EngineFrame
  /\ UNCHANGED execVars
  /\ UNCHANGED summary
  /\ IF ~context.live
     THEN /\ pc' = "rejected"
          /\ UNCHANGED <<context, events, approvalResolver, approvalPromise>>
     ELSE IF ~config.autoApprove
     THEN /\ context' = [context EXCEPT !.status = "awaiting_approval",
                                        !.currentStep = "approve"]
          /\ approvalPromise' = [NoPromise EXCEPT !.state = "pending"]
          /\ UNCHANGED approvalResolver
          /\ events' = Append(events, Ev("approval:requested", "none"))
          /\ pc' = "approval_requested"
     ELSE /\ ImplementationBegin([context EXCEPT !.planner = approvePlan(context.planner)],
                                 events)
          /\ UNCHANGED <<approvalResolver, approvalPromise>>

\* start() entering the approval phase whatever autoApprove is
AfterPlanningAlwaysAsks ==
  /\ pc = "planner_done"
  /\ EngineFrame
  /\ UNCHANGED execVars
  /\ UNCHANGED summary
  /\ IF ~context.live
     THEN /\ pc' = "rejected"
          /\ UNCHANGED <<context, events, approvalResolver, approvalPromise>>
     ELSE /\ context' = [context EXCEPT !.status = "awaiting_approval",
                                        !.currentStep = "approve"]
          /\ approvalPromise' = [NoPromise EXCEPT !.state = "pending"]
          /\ approvalResolver' = TRUE
          /\ events' = Append(events, Ev("approval:requested", "none"))
          /\ pc' = "approval_requested"

\* start() going on to the implementation phase without approving the Plan when
\* autoApprove is set
AfterPlanningWithoutApprove ==
  /\ pc = "planner_done"
  /\ EngineFrame
  /\ UNCHANGED execVars
  /\ UNCHANGED summary
  /\ IF ~context.live
     THEN /\ pc' = "rejected"
          /\ UNCHANGED <<context, events, approvalResolver, approvalPromise>>
     ELSE IF ~config.autoApprove
     THEN /\ context' = [context EXCEPT !.status = "awaiting_approval",
                                        !.currentStep = "approve"]
          /\ approvalPromise' = [NoPromise EXCEPT !.state = "pending"]
          /\ approvalResolver' = TRUE
          /\ events' = Append(events, Ev("approval:requested", "none"))
          /\ pc' = "approval_requested"
     ELSE /\ ImplementationBegin(context, events)
          /\ UNCHANGED <<approvalResolver, approvalPromise>>

\* start() after the planning phase: the approval phase up to emit approval:requested,
\* or the automatic approval followed by the rejection check and the implementation phase
AfterPlanning ==
  /\ pc = "planner_done"
  /\ EngineFrame
  /\ UNCHANGED execVars
  /\ UNCHANGED summary
  /\ IF ~context.live
     THEN /\ pc' = "rejected"
          /\ UNCHANGED <<context, events, approvalResolver, approvalPromise>>
     ELSE IF ~config.autoApprove
     THEN /\ context' = [context EXCEPT !.status = "awaiting_approval",
                                        !.currentStep = "approve"]
          /\ approvalPromise' = [NoPromise EXCEPT !.state = "pending"]
          /\ approvalResolver' = TRUE
          /\ events' = Append(events, Ev("approval:requested", "none"))
          /\ pc' = "approval_requested"
     ELSE /\ ImplementationBegin([context EXCEPT !.planner = approvePlan(context.planner)],
                                 events)
          /\ UNCHANGED <<approvalResolver, approvalPromise>>

\* runApprovalPhase: await approvalPromise
AwaitApproval ==
  /\ pc = "approval_requested"
  /\ EngineFrame
  /\ UNCHANGED execVars
  /\ pc' = "approval_wait"
  /\ UNCHANGED <<context, events, summary, approvalResolver, approvalPromise>>

\* runApprovalPhase resumes with the response: emit approval:received
ApprovalResumes ==
  /\ pc = "approval_wait"
  /\ approvalPromise.state = "resolved"
  /\ EngineFrame
  /\ UNCHANGED execVars
  /\ events' = Emit(context, events, "approval:received", BoolTag(approvalPromise.approved))
  /\ pc' = "approval_received"
  /\ UNCHANGED <<context, summary, approvalResolver, approvalPromise>>

\* the approval phase approving the Plan whatever the response says
ApplyApprovalIgnoringResponse ==
  /\ pc = "approval_received"
  /\ EngineFrame
  /\ UNCHANGED execVars
  /\ UNCHANGED <<summary, approvalResolver, approvalPromise>>
  /\ IF ~context.live THEN pc' = "rejected" /\ UNCHANGED <<context, events>>
     ELSE ImplementationBegin([context EXCEPT !.planner = approvePlan(context.planner)],
                              events)

\* runApprovalPhase: approvePlan / rejectPlan; start(): the rejection check, then the
\* implementation phase up to emit agent:started
ApplyApproval ==
  /\ pc = "approval_received"
  /\ EngineFrame
  /\ UNCHANGED execVars
  /\ UNCHANGED <<summary, approvalResolver, approvalPromise>>
  /\ IF ~context.live THEN pc' = "rejected" /\ UNCHANGED <<context, events>>
     ELSE LET plan == IF approvalPromise.approved
                      THEN approvePlan(context.planner)
                      ELSE rejectPlan(context.planner, approvalPromise.feedback)
              ctx == [context EXCEPT !.planner = plan]
          IN  IF plan.approvalStatus = "rejected"
              THEN /\ context' = [ctx EXCEPT !.status = "cancelled"]
                   /\ events' = Append(events, Ev("workflow:cancelled", "rejected"))
                   /\ pc' = "cancelled_emitted"
              ELSE ImplementationBegin(ctx, events)

\* runImplementationPhase: build the input and call executeCoder
CallExecuteCoder ==
  /\ pc = "coder_started"
  /\ EngineFrame
  /\ IF ~context.live THEN Reject /\ UNCHANGED execVars
     ELSE /\ executeCoderEnter(context.planner)
          /\ pc' = "coder_call"
          /\ UNCHANGED <<context, events, summary, approvalResolver, approvalPromise>>

\* runImplementationPhase from the success test on
CoderOutcome(ctx, evs) ==
  IF ctx.coder.success
  THEN /\ events' = Append(evs, Ev("agent:completed", "coder"))
       /\ pc' = "coder_done"
  ELSE IF ctx.coder.healingAttempts >= config.maxHealingAttempts
  THEN /\ events' = Append(evs, Ev("healing:failed", "none"))
       /\ pc' = "healing_failed_emitted"
  ELSE /\ events' = Append(evs, Ev("agent:failed", "coder"))
       /\ pc' = "coder_failed"

\* runImplementationPhase after await executeCoder
CoderReturns ==
  /\ pc = "coder_call"
  /\ epc = "done"
  /\ EngineFrame
  /\ executorSettled
  /\ UNCHANGED <<summary, approvalResolver, approvalPromise>>
  /\ IF ~context.live THEN pc' = "rejected" /\ UNCHANGED <<context, events>>
     ELSE /\ context' = [context EXCEPT !.coder = result]
          /\ IF result.healingAttempts > 1
             THEN /\ events' = Append(events, Ev("healing:succeeded", "none"))
                  /\ pc' = "healing_reported"
             ELSE CoderOutcome([context EXCEPT !.coder = result], events)

\* runImplementationPhase after emit healing:succeeded
ReportCoder ==
  /\ pc = "healing_reported"
  /\ EngineFrame
  /\ UNCHANGED execVars
  /\ UNCHANGED <<summary, approvalResolver, approvalPromise, context>>
  /\ IF ~context.live THEN pc' = "rejected" /\ UNCHANGED events
     ELSE CoderOutcome(context, events)

\* runImplementationPhase after emit healing:failed
ReportCoderFailed ==
  /\ pc = "healing_failed_emitted"
  /\ EngineFrame
  /\ UNCHANGED execVars
  /\ UNCHANGED <<summary, approvalResolver, approvalPromise, context>>
  /\ IF ~context.live THEN pc' = "rejected" /\ UNCHANGED events
     ELSE /\ events' = Append(events, Ev("agent:failed", "coder"))
          /\ pc' = "coder_failed"

\* runReviewPhase up to emit agent:started
RunReviewPhase ==
  /\ pc = "coder_done"
  /\ EngineFrame
  /\ UNCHANGED execVars
  /\ IF ~context.live THEN Reject
     ELSE /\ context' = [context EXCEPT !.status = "reviewing", !.currentStep = "review"]
          /\ events' = Append(events, Ev("agent:started", "reviewer"))
          /\ pc' = "reviewer_started"
          /\ UNCHANGED <<summary, approvalResolver, approvalPromise>>

\* runReviewPhase: build the input and call executeReviewer
CallExecuteReviewer ==
  /\ pc = "reviewer_started"
  /\ EngineFrame
  /\ IF ~context.live THEN Reject /\ UNCHANGED execVars
     ELSE /\ executeReviewerEnter(context.coder)
          /\ pc' = "reviewer_call"
          /\ UNCHANGED <<context, events, summary, approvalResolver, approvalPromise>>

\* runReviewPhase after await executeReviewer
ReviewerReturns ==
  /\ pc = "reviewer_call"
  /\ epc = "done"
  /\ EngineFrame
  /\ executorSettled
  /\ UNCHANGED <<summary, approvalResolver, approvalPromise>>
  /\ IF ~context.live THEN pc' = "rejected" /\ UNCHANGED <<context, events>>
     ELSE /\ context' = [context EXCEPT !.reviewer = result]
          /\ IF result.success
             THEN /\ events' = Append(events, Ev("agent:completed", "reviewer"))
                  /\ pc' = "reviewer_done"
             ELSE /\ events' = Append(events, Ev("agent:failed", "reviewer"))
                  /\ pc' = "reviewer_failed"

\* start() entering the commit phase on an approved review whatever autoCommit is
AfterReviewAlwaysCommits ==
  /\ pc = "reviewer_done"
  /\ EngineFrame
  /\ UNCHANGED execVars
  /\ UNCHANGED <<summary, approvalResolver, approvalPromise>>
  /\ IF ~context.live THEN pc' = "rejected" /\ UNCHANGED <<context, events>>
     ELSE IF context.reviewer.decision = "approved"
     THEN /\ context' = [context EXCEPT !.status = "committing", !.currentStep = "commit"]
          /\ events' = Append(events, Ev("skill:started", "commit"))
          /\ pc' = "commit_started"
     ELSE Complete(context, events)

\* start() entering the commit phase whatever the reviewer decided
AfterReviewIgnoringDecision ==
  /\ pc = "reviewer_done"
  /\ EngineFrame
  /\ UNCHANGED execVars
  /\ UNCHANGED <<summary, approvalResolver, approvalPromise>>
  /\ IF ~context.live THEN pc' = "rejected" /\ UNCHANGED <<context, events>>
     ELSE IF config.autoCommit
     THEN /\ context' = [context EXCEPT !.status = "committing", !.currentStep = "commit"]
          /\ events' = Append(events, Ev("skill:started", "commit"))
          /\ pc' = "commit_started"
     ELSE Complete(context, events)

\* start() after the review phase: the commit phase up to emit skill:started, or completion
AfterReview ==
  /\ pc = "reviewer_done"
  /\ EngineFrame
  /\ UNCHANGED execVars
  /\ UNCHANGED <<summary, approvalResolver, approvalPromise>>
  /\ IF ~context.live THEN pc' = "rejected" /\ UNCHANGED <<context, events>>
     ELSE IF config.autoCommit /\ context.reviewer.decision = "approved"
     THEN /\ context' = [context EXCEPT !.status = "committing", !.currentStep = "commit"]
          /\ events' = Append(events, Ev("skill:started", "commit"))
          /\ pc' = "commit_started"
     ELSE Complete(context, events)

\* runCommitPhase: call executeCommit (it takes nothing from the context)
CallExecuteCommit ==
  /\ pc = "commit_started"
  /\ EngineFrame
  /\ UNCHANGED execVars
  /\ pc' = "commit_call"
  /\ UNCHANGED <<context, events, summary, approvalResolver, approvalPromise>>

\* ---- commit skill
NoChangesError == "No changes to commit"
GitError == "git command failed"

simulateCommit == [present |-> TRUE, success |-> TRUE, error |-> Undefined]

\* performCommit: nothing to commit, or the commit made; what it throws reaches the
\* catch block of executeCommit
performCommit(hasChanges) ==
  IF ~hasChanges
  THEN [present |-> TRUE, success |-> FALSE, error |-> NoChangesError]
  ELSE [present |-> TRUE, success |-> TRUE, error |-> Undefined]

\* SkillExecutor.executeCommit: it returns a CommitResult in every case
executeCommit(simulate, hasChanges, gitThrows) ==
  IF simulate THEN simulateCommit
  ELSE IF gitThrows THEN [present |-> TRUE, success |-> FALSE, error |-> GitError]
  ELSE performCommit(hasChanges)

\* a commit phase that throws when the commit failed
CommitReturnsThrowing ==
  /\ pc = "commit_call"
  /\ EngineFrame
  /\ UNCHANGED execVars
  /\ UNCHANGED <<summary, approvalResolver, approvalPromise>>
  /\ IF ~context.live THEN pc' = "rejected" /\ UNCHANGED <<context, events>>
     ELSE \E hasChanges \in BOOLEAN, gitThrows \in BOOLEAN :
            LET commit == executeCommit(execConfig.simulate, hasChanges, gitThrows)
                ctx == [context EXCEPT !.commit = commit]
            IN  IF commit.success
                THEN /\ context' = ctx
                     /\ events' = Append(events, Ev("skill:completed", "commit"))
                     /\ pc' = "commit_done"
                ELSE Catch(ctx, Append(events, Ev("skill:failed", "commit")), commit.error)

\* runCommitPhase after await executeCommit
CommitReturns ==
  /\ pc = "commit_call"
  /\ EngineFrame
  /\ UNCHANGED execVars
  /\ UNCHANGED <<summary, approvalResolver, approvalPromise>>
  /\ IF ~context.live THEN pc' = "rejected" /\ UNCHANGED <<context, events>>
     ELSE \E hasChanges \in BOOLEAN, gitThrows \in BOOLEAN :
            LET commit == executeCommit(execConfig.simulate, hasChanges, gitThrows)
            IN  /\ context' = [context EXCEPT !.commit = commit]
                /\ IF commit.success
                   THEN events' = Append(events, Ev("skill:completed", "commit"))
                   ELSE events' = Append(events, Ev("skill:failed", "commit"))
                /\ pc' = "commit_done"

\* start() after the commit phase: completion
AfterCommit ==
  /\ pc = "commit_done"
  /\ EngineFrame
  /\ UNCHANGED execVars
  /\ UNCHANGED <<summary, approvalResolver, approvalPromise>>
  /\ IF ~context.live THEN pc' = "rejected" /\ UNCHANGED <<context, events>>
     ELSE Complete(context, events)

\* return this.getSummary()
ReturnSummary ==
  /\ pc \in {"completed_emitted", "failed_emitted", "cancelled_emitted"}
  /\ EngineFrame
  /\ UNCHANGED execVars
  /\ UNCHANGED <<context, events, approvalResolver, approvalPromise>>
  /\ IF ~context.live THEN pc' = "rejected" /\ UNCHANGED summary
     ELSE /\ summary' = getSummary(context, config)
          /\ pc' = "returned"

\* ---------------------------------------------------------- public methods
\* a cancel() that also marks the stored Plan rejected
cancelRejectingPlan ==
  /\ calls < MaxCalls
  /\ calls' = calls + 1
  /\ lastCall' = [NoCall EXCEPT !.op = "cancel"]
  /\ IF context.live /\ context.status # "completed" /\ context.status # "failed"
     THEN /\ context' = [context EXCEPT !.status = "cancelled",
                                        !.completedAt = Stamp(context),
                                        !.planner = rejectPlan(@, Undefined)]
          /\ events' = Append(events, Ev("workflow:cancelled", "manual"))
     ELSE UNCHANGED <<context, events>>
  /\ UNCHANGED <<config, execConfig, runs, pc, summary, approvalResolver,
                 approvalPromise, execVars, listeners, delivery>>

\* cancel(), called by a caller or from inside a listener
cancel ==
  /\ calls < MaxCalls
  /\ calls' = calls + 1
  /\ lastCall' = [NoCall EXCEPT !.op = "cancel"]
  /\ IF context.live /\ context.status # "completed" /\ context.status # "failed"
     THEN /\ context' = [context EXCEPT !.status = "cancelled",
                                        !.completedAt = Stamp(context)]
          /\ events' = Append(events, Ev("workflow:cancelled", "manual"))
     ELSE UNCHANGED <<context, events>>
  /\ UNCHANGED <<config, execConfig, runs, pc, summary, approvalResolver,
                 approvalPromise, execVars, listeners, delivery>>

\* submitApproval whose last response wins: it replaces a response already given
submitApprovalLastWins ==
  /\ calls < MaxCalls
  /\ calls' = calls + 1
  /\ \E response \in Responses :
       /\ lastCall' = [op |-> "submitApproval", approved |-> response.approved,
                       feedback |-> response.feedback]
       /\ IF approvalResolver /\ context.live /\ approvalPromise.state # "none"
          THEN approvalPromise' = [state |-> "resolved", approved |-> response.approved,
                                   feedback |-> response.feedback]
          ELSE UNCHANGED approvalPromise
  /\ UNCHANGED <<config, execConfig, runs, pc, summary, approvalResolver, context,
                 events, execVars, listeners, delivery>>

\* submitApproval(approved, feedback): the resolver settles its promise once
submitApproval ==
  /\ calls < MaxCalls
  /\ calls' = calls + 1
  /\ \E response \in Responses :
       /\ lastCall' = [op |-> "submitApproval", approved |-> response.approved,
                       feedback |-> response.feedback]
       /\ IF approvalResolver /\ context.live /\ approvalPromise.state = "pending"
          THEN approvalPromise' = [state |-> "resolved", approved |-> response.approved,
                                   feedback |-> response.feedback]
          ELSE UNCHANGED approvalPromise
  /\ UNCHANGED <<config, execConfig, runs, pc, summary, approvalResolver, context,
                 events, execVars, listeners, delivery>>

\* reset()
reset ==
  /\ calls < MaxCalls
  /\ calls' = calls + 1
  /\ lastCall' = [NoCall EXCEPT !.op = "reset"]
  /\ context' = NullContext
  /\ execStatus' = "idle"
  /\ currentAgent' = "null"
  /\ approvalResolver' = FALSE
  /\ UNCHANGED <<config, execConfig, runs, pc, summary, approvalPromise, events,
                 epc, attempts, validation, result, thrown, listeners, delivery,
                 written>>

\* ------------------------------------------------------------ specification
Init ==
  /\ config \in [autoApprove : BOOLEAN, autoCommit : BOOLEAN,
                 maxHealingAttempts : 1..MaxCfgHealing]
  /\ execConfig \in [maxHealingAttempts : {DefaultMaxHealingAttempts}, simulate : BOOLEAN]
  /\ context = NullContext
  /\ approvalResolver = FALSE
  /\ approvalPromise = NoPromise
  /\ events = <<>>
  /\ pc = "idle"
  /\ summary = NoSummary
  /\ execStatus = "idle"
  /\ currentAgent = "null"
  /\ epc = "idle"
  /\ attempts = 0
  /\ validation = NoValidation
  /\ result = NoResult
  /\ thrown = NoError
  /\ written = 0
  /\ runs = 0
  /\ calls = 0
  /\ lastCall = NoCall
  /\ listeners = <<>>
  /\ delivery = NoDelivery

Next ==
  \/ Start
  \/ RunPlanningPhase
  \/ CallExecutePlanner
  \/ PlannerSimulated
  \/ PlannerCompletes
  \/ PlannerThrows
  \/ PlannerReturns
  \/ StageThrows
  \/ StageFailed
  \/ AfterPlanning
  \/ AwaitApproval
  \/ ApprovalResumes
  \/ ApplyApproval
  \/ CallExecuteCoder
  \/ CoderSimulateAttempt
  \/ CoderGenerate
  \/ CoderGenerateThrows
  \/ CoderValidate
  \/ CoderApply
  \/ CoderReturns
  \/ ReportCoder
  \/ ReportCoderFailed
  \/ RunReviewPhase
  \/ CallExecuteReviewer
  \/ ReviewerSimulated
  \/ ReviewerCompletes
  \/ ReviewerThrows
  \/ ReviewerReturns
  \/ AfterReview
  \/ CallExecuteCommit
  \/ CommitReturns
  \/ AfterCommit
  \/ ReturnSummary
  \/ cancel
  \/ submitApproval
  \/ reset

Spec == Init /\ [][Next]_vars

TypeOK ==
  /\ pc \in {"idle", "started", "planner_started", "planner_call", "planner_done",
             "planner_failed", "approval_requested", "approval_wait",
             "approval_received", "coder_started", "coder_call", "healing_reported",
             "healing_failed_emitted", "coder_done", "coder_failed", "reviewer_started",
             "reviewer_call", "reviewer_done", "reviewer_failed", "commit_started",
             "commit_call", "commit_done", "completed_emitted", "failed_emitted",
             "cancelled_emitted", "returned", "rejected"}
  /\ epc \in {"idle", "planner", "coder_attempt", "coder_validate", "coder_apply",
              "reviewer", "done", "threw"}
  /\ attempts \in 0..execConfig.maxHealingAttempts

\* ===================================================== the executor by itself
\* An AgentExecutor constructed by a caller with its own configuration, and
\* executeCoder called on it directly.
ApprovalStatuses == {"pending", "approved", "rejected", "needs_revision"}

\* input.plan: absent, or a plan in any approval status
CoderInputs ==
  {NoPlan} \cup {[simulatePlannerExecution EXCEPT !.approvalStatus = a] : a \in ApprovalStatuses}

\* a caller calls executeCoder(input)
ExecuteCoderDirect ==
  /\ epc = "idle"
  /\ calls < MaxCalls
  /\ calls' = calls + 1
  /\ \E plan \in CoderInputs :
       /\ lastCall' = [op |-> "executeCoder", approved |-> FALSE,
                       feedback |-> Undefined, plan |-> plan]
       /\ executeCoderEnter(plan)
  /\ UNCHANGED <<config, execConfig, runs, context, approvalResolver, approvalPromise,
                 events, pc, summary, listeners, delivery>>

\* the caller has received the result or the error
SettleDirect ==
  /\ epc \in {"done", "threw"}
  /\ executorSettled
  /\ ExecutorFrame

ExecInit ==
  /\ config = [autoApprove |-> FALSE, autoCommit |-> FALSE,
               maxHealingAttempts |-> DefaultMaxHealingAttempts]
  /\ execConfig \in [maxHealingAttempts : 1..MaxExecHealing, simulate : BOOLEAN]
  /\ context = NullContext
  /\ approvalResolver = FALSE
  /\ approvalPromise = NoPromise
  /\ events = <<>>
  /\ pc = "idle"
  /\ summary = NoSummary
  /\ execStatus = "idle"
  /\ currentAgent = "null"
  /\ epc = "idle"
  /\ attempts = 0
  /\ validation = NoValidation
  /\ result = NoResult
  /\ thrown = NoError
  /\ written = 0
  /\ runs = 0
  /\ calls = 0
  /\ lastCall = NoCall
  /\ listeners = <<>>
  /\ delivery = NoDelivery

ExecNext ==
  \/ ExecuteCoderDirect
  \/ CoderSimulateAttempt
  \/ CoderGenerate
  \/ CoderGenerateThrows
  \/ CoderValidate
  \/ CoderApply
  \/ SettleDirect

ExecSpec == ExecInit /\ [][ExecNext]_vars

\* ============================================= runs with autoApprove configured
\* An orchestrator constructed with autoApprove: true.  start() goes on whenever the
\* promise it awaits is settled, and every stage call settles: the steps of start() and
\* of the executor are weakly fair.  The callers' calls (start, cancel) are not.
AutoApproveInit == Init /\ config.autoApprove

\* the steps of start() and of the stage calls it awaits
RunStep ==
  \/ RunPlanningPhase
  \/ CallExecutePlanner
  \/ PlannerSimulated
  \/ PlannerCompletes
  \/ PlannerThrows
  \/ PlannerReturns
  \/ StageThrows
  \/ StageFailed
  \/ AfterPlanning
  \/ CallExecuteCoder
  \/ CoderSimulateAttempt
  \/ CoderGenerate
  \/ CoderGenerateThrows
  \/ CoderValidate
  \/ CoderApply
  \/ CoderReturns
  \/ ReportCoder
  \/ ReportCoderFailed
  \/ RunReviewPhase
  \/ CallExecuteReviewer
  \/ ReviewerSimulated
  \/ ReviewerCompletes
  \/ ReviewerThrows
  \/ ReviewerReturns
  \/ AfterReview
  \/ CallExecuteCommit
  \/ CommitReturns
  \/ AfterCommit
  \/ ReturnSummary

AutoApproveNext ==
  \/ Start
  \/ RunPlanningPhase
  \/ CallExecutePlanner
  \/ PlannerSimulated
  \/ PlannerCompletes
  \/ PlannerThrows
  \/ PlannerReturns
  \/ StageThrows
  \/ StageFailed
  \/ AfterPlanning
  \/ CallExecuteCoder
  \/ CoderSimulateAttempt
  \/ CoderGenerate
  \/ CoderGenerateThrows
  \/ CoderValidate
  \/ CoderApply
  \/ CoderReturns
  \/ ReportCoder
  \/ ReportCoderFailed
  \/ RunReviewPhase
  \/ CallExecuteReviewer
  \/ ReviewerSimulated
  \/ ReviewerCompletes
  \/ ReviewerThrows
  \/ ReviewerReturns
  \/ AfterReview
  \/ CallExecuteCommit
  \/ CommitReturns
  \/ AfterCommit
  \/ ReturnSummary
  \/ cancel

AutoApproveSpec == AutoApproveInit /\ [][AutoApproveNext]_vars /\ WF_vars(RunStep)

\* ======================================================= the listener registry
\* on(), the unsubscribe closure it returns, and the forEach of emit().  A listener is
\* represented by what it does when called: it returns, it throws, or (an async
\* listener, which WorkflowListener allows) it returns a promise that rejects.  In the
\* specifications above no listener is registered and events is the stream emit() is
\* called with; here the dispatch of one emit() to the registered listeners is followed.
ListenerKinds == {"returns", "throws", "rejects"}

\* event types used for the dispatch; emit() treats every type alike
DispatchedTypes == {"agent:started", "workflow:cancelled"}

\* listeners.forEach(listener => { try { void listener(event) } catch { console.error } })
RECURSIVE forEach(_, _, _, _)
forEach(ls, i, type, d) ==
  IF i > Len(ls) THEN d
  ELSE LET called == [d EXCEPT !.inbox[i] = Append(@, type)]
       IN  IF ls[i] = "throws"
           THEN forEach(ls, i + 1, type, [called EXCEPT !.caught = @ + 1])
           ELSE IF ls[i] = "rejects"
           THEN forEach(ls, i + 1, type, [called EXCEPT !.uncaught = @ + 1])
           ELSE forEach(ls, i + 1, type, called)

\* emit(): nothing is dispatched when there is no context
emitToListeners(ctx, ls, d, type) ==
  IF ~ctx.live THEN d ELSE forEach(ls, 1, type, d)

\* s without its i-th element
RemoveAt(s, i) == [k \in 1..(Len(s) - 1) |-> IF k < i THEN s[k] ELSE s[k + 1]]

\* a step of the registry: start() and the executor do nothing
ListenerFrame ==
  /\ lastCall' = NoCall
  /\ UNCHANGED <<config, execConfig, context, approvalResolver, approvalPromise, pc,
                 summary, runs, calls, execVars>>

\* on(listener)
on ==
  /\ delivery.process = "running"
  /\ Len(listeners) < MaxListeners
  /\ \E kind \in ListenerKinds : listeners' = Append(listeners, kind)
  /\ delivery' = [delivery EXCEPT !.inbox = Append(@, <<>>)]
  /\ ListenerFrame
  /\ UNCHANGED events

\* the closure returned by on(): the listener is filtered out
unsubscribe ==
  /\ delivery.process = "running"
  /\ \E i \in 1..Len(listeners) :
       /\ listeners' = RemoveAt(listeners, i)
       /\ delivery' = [delivery EXCEPT !.inbox = RemoveAt(@, i)]
  /\ ListenerFrame
  /\ UNCHANGED events

\* the engine calls emit(type, data)
EmitToListeners ==
  /\ delivery.process = "running"
  /\ Len(events) <= MaxEmits
  /\ \E type \in DispatchedTypes :
       /\ events' = Emit(context, events, type, "none")
       /\ delivery' = emitToListeners(context, listeners, delivery, type)
  /\ ListenerFrame
  /\ UNCHANGED listeners

\* the runtime finds a rejected promise nobody handles: by default Node ends the process
\* (with --unhandled-rejections=warn it only warns, and this step does not happen)
UnhandledRejection ==
  /\ delivery.process = "running"
  /\ delivery.uncaught > 0
  /\ delivery' = [delivery EXCEPT !.process = "terminated"]
  /\ ListenerFrame
  /\ UNCHANGED <<events, listeners>>

\* an orchestrator whose start() has created the context and emitted workflow:started
\* before any listener was registered
EmitInit ==
  /\ config = [autoApprove |-> FALSE, autoCommit |-> FALSE,
               maxHealingAttempts |-> DefaultMaxHealingAttempts]
  /\ execConfig = [maxHealingAttempts |-> DefaultMaxHealingAttempts, simulate |-> TRUE]
  /\ context = createContext
  /\ approvalResolver = FALSE
  /\ approvalPromise = NoPromise
  /\ events = <<Ev("workflow:started", "none")>>
  /\ pc = "started"
  /\ summary = NoSummary
  /\ execStatus = "idle"
  /\ currentAgent = "null"
  /\ epc = "idle"
  /\ attempts = 0
  /\ validation = NoValidation
  /\ result = NoResult
  /\ thrown = NoError
  /\ written = 0
  /\ runs = 1
  /\ calls = 0
  /\ lastCall = NoCall
  /\ listeners = <<>>
  /\ delivery = NoDelivery

EmitNext ==
  \/ on
  \/ unsubscribe
  \/ EmitToListeners
  \/ UnhandledRejection
  \/ reset

EmitSpec == EmitInit /\ [][EmitNext]_vars

\* ================================================= the plan transition functions
\* approvePlan, rejectPlan and requestRevision called by a caller on a Plan it holds.
\* context.planner is the record the caller passes, result the record it gets back; a
\* second call passes the result of the first with the same argument.  Each function
\* builds a new object with a spread of its argument and assigns nothing to it.
PlanOps == {"approvePlan", "rejectPlan", "requestRevision"}

\* the Plans a caller may hold
PlanInputs ==
  {[simulatePlannerExecution EXCEPT !.approvalStatus = a, !.message = m,
                                    !.rejectionReason = r, !.success = ok] :
     a \in ApprovalStatuses, m \in {PlanCreatedMessage, DefaultRejectionMessage, "split it"},
     r \in {Undefined, "out of scope"}, ok \in BOOLEAN}

\* the second argument each function accepts
PlanArgs(op) ==
  IF op = "approvePlan" THEN {Undefined}
  ELSE IF op = "rejectPlan" THEN Feedbacks
  ELSE {"", "split it"}

PlanTransition(op, plan, arg) ==
  IF op = "approvePlan" THEN approvePlan(plan)
  ELSE IF op = "rejectPlan" THEN rejectPlan(plan, arg)
  ELSE requestRevision(plan, arg)

\* a step of a caller of the plan functions: the engine and the executor do nothing
PlanFrame ==
  UNCHANGED <<config, execConfig, approvalResolver, approvalPromise, events, pc, summary,
              runs, calls, execStatus, currentAgent, epc, attempts, validation, thrown,
              listeners, delivery, written>>

\* const changed = op(plan, arg)
CallPlanFunction ==
  /\ lastCall.op = "none"
  /\ \E op \in PlanOps : \E arg \in PlanArgs(op) :
       /\ result' = PlanTransition(op, context.planner, arg)
       /\ lastCall' = [op |-> op, approved |-> FALSE, feedback |-> arg, again |-> FALSE]
  /\ UNCHANGED context
  /\ PlanFrame

\* const again = op(changed, arg)
CallPlanFunctionAgain ==
  /\ lastCall.op \in PlanOps
  /\ ~lastCall.again
  /\ result' = PlanTransition(lastCall.op, result, lastCall.feedback)
  /\ lastCall' = [lastCall EXCEPT !.again = TRUE]
  /\ UNCHANGED context
  /\ PlanFrame

PlanInit ==
  /\ config = [autoApprove |-> FALSE, autoCommit |-> FALSE,
               maxHealingAttempts |-> DefaultMaxHealingAttempts]
  /\ execConfig = [maxHealingAttempts |-> DefaultMaxHealingAttempts, simulate |-> TRUE]
  /\ \E plan \in PlanInputs : context = [NullContext EXCEPT !.planner = plan]
  /\ approvalResolver = FALSE
  /\ approvalPromise = NoPromise
  /\ events = <<>>
  /\ pc = "idle"
  /\ summary = NoSummary
  /\ execStatus = "idle"
  /\ currentAgent = "null"
  /\ epc = "idle"
  /\ attempts = 0
  /\ validation = NoValidation
  /\ result = NoResult
  /\ thrown = NoError
  /\ written = 0
  /\ runs = 0
  /\ calls = 0
  /\ lastCall = NoCall
  /\ listeners = <<>>
  /\ delivery = NoDelivery

PlanNext ==
  \/ CallPlanFunction
  \/ CallPlanFunctionAgain

PlanSpec == PlanInit /\ [][PlanNext]_vars

\* ====================================================== the planner's markdown
\* parsePlannerResponseFromMarkdown on the text itself.  A text is the heading line
\* "## 작업 계획" with the characters that follow it on the line (or no such line), and
\* the number of table rows, phases and risk lines its sections hold.
MaxTail == 4
TailChars == {":", " ", "t"}
Tails == UNION {[1..n -> TailChars] : n \in 0..MaxTail}
NoHeading == <<"<no heading>">>
Markdowns == [heading : Tails \cup {NoHeading}, affectedFiles : 0..1, phases : 0..1,
              risks : 0..1]

\* input.request.substring(0, 50)
RequestTitle == <<"r">>

NoMatch == [matched |-> FALSE, group |-> <<>>]

\* the length of the longest prefix of s that [:\s]+ can take
SeparatorRun(s) ==
  LET prefixes == {i \in 0..Len(s) : \A j \in 1..i : s[j] \in {":", " "}}
  IN  CHOOSE i \in prefixes : \A k \in prefixes : k <= i

\* String.prototype.trim
trim(s) ==
  LET keep == {i \in 1..Len(s) : s[i] # " "}
      first == CHOOSE i \in keep : \A k \in keep : i <= k
      last == CHOOSE i \in keep : \A k \in keep : k <= i
  IN  IF keep = {} THEN <<>> ELSE SubSeq(s, first, last)

\* markdown.match(/^##\s+작업\s*계획[:\s]+(.+)$/im): the class is greedy and gives back
\* one character when it would leave none for the group
titleMatch(heading) ==
  IF heading = NoHeading
  THEN NoMatch
  ELSE LET run == SeparatorRun(heading)
           taken == IF run = Len(heading) THEN run - 1 ELSE run
       IN  IF taken <= 0
           THEN NoMatch
           ELSE [matched |-> TRUE, group |-> SubSeq(heading, taken + 1, Len(heading))]

\* what the parser has found in a text
Scan(markdown) ==
  [foundTitle |-> titleMatch(markdown.heading).matched,
   affectedFiles |-> markdown.affectedFiles,
   phases |-> markdown.phases]

\* the PlanResult the parser returns for a text
parsePlannerMarkdown(markdown) ==
  LET m == titleMatch(markdown.heading)
      plan == parsePlannerResponseFromMarkdown(Scan(markdown))
  IN  IF plan.success
      THEN [role |-> plan.role, success |-> TRUE, error |-> plan.error,
            approvalStatus |-> plan.approvalStatus,
            title |-> IF m.matched THEN trim(m.group) ELSE RequestTitle,
            affectedFiles |-> markdown.affectedFiles, phases |-> markdown.phases,
            risks |-> markdown.risks]
      ELSE [role |-> plan.role, success |-> FALSE, error |-> plan.error,
            approvalStatus |-> plan.approvalStatus,
            title |-> RequestTitle,
            affectedFiles |-> 0, phases |-> 0, risks |-> 0]

\* const plan = parsePlannerResponseFromMarkdown(markdown, input)
CallParser ==
  /\ lastCall.op = "parse"
  /\ ~lastCall.returned
  /\ result' = parsePlannerMarkdown(lastCall.markdown)
  /\ thrown' = NoError
  /\ lastCall' = [lastCall EXCEPT !.returned = TRUE]
  /\ UNCHANGED <<context, config, execConfig, approvalResolver, approvalPromise, events,
                 pc, summary, runs, calls, execStatus, currentAgent, epc, attempts,
                 validation, listeners, delivery, written>>

ParseInit ==
  /\ config = [autoApprove |-> FALSE, autoCommit |-> FALSE,
               maxHealingAttempts |-> DefaultMaxHealingAttempts]
  /\ execConfig = [maxHealingAttempts |-> DefaultMaxHealingAttempts, simulate |-> FALSE]
  /\ context = NullContext
  /\ approvalResolver = FALSE
  /\ approvalPromise = NoPromise
  /\ events = <<>>
  /\ pc = "idle"
  /\ summary = NoSummary
  /\ execStatus = "idle"
  /\ currentAgent = "null"
  /\ epc = "idle"
  /\ attempts = 0
  /\ validation = NoValidation
  /\ result = NoResult
  /\ thrown = NoError
  /\ written = 0
  /\ runs = 0
  /\ calls = 0
  /\ \E markdown \in Markdowns :
       lastCall = [op |-> "parse", approved |-> FALSE, feedback |-> Undefined,
                   markdown |-> markdown, returned |-> FALSE]
  /\ listeners = <<>>
  /\ delivery = NoDelivery

ParseNext == CallParser

ParseSpec == ParseInit /\ [][ParseNext]_vars

\* ================================================================== claims
Emitted(ev) == \E i \in 1..Len(events) : events[i] = ev
EmittedType(type) == \E i \in 1..Len(events) : events[i].type = type
PhaseStart(ev) == ev.type = "agent:started" \/ ev.type = "skill:started"
ManualCancel == Ev("workflow:cancelled", "manual")
RejectionReceived == Ev("approval:received", "false")
ApprovalReceived == Ev("approval:received", "true")

\* a workflow:cancelled of cancel() was emitted after a phase had started
CancelledInPhase ==
  \E k \in 1..Len(events) : \E i \in 1..Len(events) :
    k < i /\ PhaseStart(events[k]) /\ events[i] = ManualCancel

\* C1: once cancel() has taken effect during a phase (workflow:cancelled follows an
\* agent:started), no agent:started or skill:started is emitted after it, and, the
\* stage in flight not having failed, the Summary start() returns has status cancelled
\* and no error.
C1_CancelHalts ==
  /\ \A i \in 1..Len(events) : \A j \in 1..Len(events) : \A k \in 1..Len(events) :
       (k < i /\ i < j /\ PhaseStart(events[k]) /\ events[i] = ManualCancel)
         => ~PhaseStart(events[j])
  /\ (summary.returned /\ CancelledInPhase /\ ~EmittedType("workflow:failed"))
       => (summary.status = "cancelled" /\ summary.error = Undefined)

\* C2 (as stated): after the gate was answered with submitApproval(false, f) the stored
\* Plan is rejected with rejectionReason f and message f (the default text only when f is
\* absent), status is cancelled, error unset, workflow:cancelled emitted, and neither the
\* coder, the reviewer nor the commit skill is started.
C2_RejectionAsStated ==
  (context.live /\ Emitted(RejectionReceived))
    => /\ ~Emitted(Ev("agent:started", "coder"))
       /\ ~Emitted(Ev("agent:started", "reviewer"))
       /\ ~EmittedType("skill:started")
       /\ pc \in {"cancelled_emitted", "returned"}
            => /\ context.planner.approvalStatus = "rejected"
               /\ context.planner.rejectionReason = approvalPromise.feedback
               /\ context.planner.message =
                    (IF approvalPromise.feedback = Undefined
                     THEN DefaultRejectionMessage ELSE approvalPromise.feedback)
               /\ context.status = "cancelled"
               /\ context.error = Undefined
               /\ EmittedType("workflow:cancelled")

\* C2 (amended): as above, but the message is f only when f is a non-empty string; it is
\* the default rejection text when f is absent or empty.
C2_Rejection ==
  (context.live /\ Emitted(RejectionReceived))
    => /\ ~Emitted(Ev("agent:started", "coder"))
       /\ ~Emitted(Ev("agent:started", "reviewer"))
       /\ ~EmittedType("skill:started")
       /\ pc \in {"cancelled_emitted", "returned"}
            => /\ context.planner.approvalStatus = "rejected"
               /\ context.planner.rejectionReason = approvalPromise.feedback
               /\ context.planner.message =
                    (IF approvalPromise.feedback \in {Undefined, ""}
                     THEN DefaultRejectionMessage ELSE approvalPromise.feedback)
               /\ context.status = "cancelled"
               /\ context.error = Undefined
               /\ EmittedType("workflow:cancelled")

\* start() has returned after a rejection with feedback "out of scope"
C2_Witness ==
  /\ pc = "returned"
  /\ context.live
  /\ Emitted(RejectionReceived)
  /\ approvalPromise.feedback = "out of scope"
  /\ context.planner.rejectionReason = "out of scope"

\* C3 (as stated): whatever autoCommit is, the Summary returned after a rejection at the
\* gate reports implement, review and commit as pending.
C3_AllPendingAsStated ==
  (summary.returned /\ Emitted(RejectionReceived))
    => /\ summary.steps.implement = "pending"
       /\ summary.steps.review = "pending"
       /\ summary.steps.commit = "pending"

\* C3 (amended): the Summary returned after a rejection at the gate reports implement and
\* review as pending, and commit as pending when autoCommit is on, skipped when it is off.
C3_StepsAfterRejection ==
  (summary.returned /\ Emitted(RejectionReceived))
    => /\ summary.steps.implement = "pending"
       /\ summary.steps.review = "pending"
       /\ summary.steps.commit = (IF config.autoCommit THEN "pending" ELSE "skipped")

\* a Summary returned after a rejection, with autoCommit off
C3_Witness ==
  /\ summary.returned
  /\ Emitted(RejectionReceived)
  /\ ~config.autoCommit
  /\ summary.status = "cancelled"

AtGate == pc \in {"approval_requested", "approval_wait"}
IsSubmit(call) == call.op = "submitApproval"
ResolvedWith(promise, call) ==
  /\ promise.state = "resolved"
  /\ promise.approved = call.approved
  /\ promise.feedback = call.feedback

\* C4: when approval:requested is delivered the resolver is installed on a pending
\* promise; a submitApproval made inside the handler (the first call after the emit)
\* settles the promise with its response, the response is not changed afterwards, and
\* the approval:received that follows carries it.
C4_ResolverBeforeEvent ==
  /\ [](pc = "approval_requested" /\ lastCall.op = "none"
          => approvalResolver /\ approvalPromise.state = "pending")
  /\ [][(pc = "approval_requested" /\ lastCall.op = "none" /\ IsSubmit(lastCall'))
          => ResolvedWith(approvalPromise', lastCall')]_vars
  /\ [][(AtGate /\ approvalPromise.state = "resolved" /\ pc' # "approval_requested")
          => approvalPromise' = approvalPromise]_vars
  /\ [][(pc = "approval_wait" /\ pc' = "approval_received" /\ context.live)
          => events' = Append(events, Ev("approval:received",
                                         BoolTag(approvalPromise.approved)))]_vars

\* submitApproval was called inside the handler of approval:requested and start() went on
C4_Witness ==
  /\ pc = "approval_requested"
  /\ IsSubmit(lastCall)
  /\ approvalPromise.state = "resolved"
  /\ approvalPromise.approved

\* C5: with autoApprove off, every agent:started of the coder is preceded by an
\* approval:received with approved = true, and while executeCoder is being called the
\* stored Plan is approved.
C5_NoImplementationWithoutApproval ==
  ~config.autoApprove
    => /\ \A j \in 1..Len(events) :
            events[j] = Ev("agent:started", "coder")
              => \E i \in 1..(j - 1) : events[i] = ApprovalReceived
       /\ (pc = "coder_call" /\ context.live)
            => context.planner.approvalStatus = "approved"
       /\ epc \in {"coder_attempt", "coder_validate", "coder_apply"}
            => Emitted(ApprovalReceived)

\* the coder stage runs after a manual approval
C5_Witness ==
  /\ ~config.autoApprove
  /\ pc = "coder_call"
  /\ epc = "coder_attempt"
  /\ context.live
  /\ Emitted(ApprovalReceived)

\* C6: a run suspended at the gate is released by submitApproval and by cancel(): after
\* either call, made while the request is outstanding, the awaited promise is settled
\* (start() can continue to its Summary); cancel() alone is enough.
C6_CancelEndsWait ==
  (pc = "approval_wait" /\ context.live /\ approvalResolver
     /\ lastCall.op \in {"cancel", "submitApproval"})
    => approvalPromise.state = "resolved"

\* C7: a submitApproval made while no request is outstanding changes nothing and is not
\* kept for a later request; one made while a request is outstanding only settles the
\* promise; a settled response is never replaced; a request is delivered with its promise
\* pending; and a run has at most one approval:received.
C7_SubmitWithoutRequest ==
  /\ [][IsSubmit(lastCall')
          => /\ UNCHANGED <<context, events, pc, summary, approvalResolver>>
             /\ \/ UNCHANGED approvalPromise
                \/ /\ AtGate
                   /\ approvalPromise.state = "pending"
                   /\ ResolvedWith(approvalPromise', lastCall')]_vars
  /\ [][(IsSubmit(lastCall') /\ approvalPromise.state # "pending")
          => UNCHANGED approvalPromise]_vars
  /\ [](pc = "approval_requested" /\ lastCall.op = "none"
          => approvalPromise.state = "pending")
  /\ [](Cardinality({i \in 1..Len(events) : events[i].type = "approval:received"}) <= 1)

\* in a second run, with the resolver of the first run still stored, submitApproval is
\* called during planning
C7_Witness ==
  /\ runs = 2
  /\ pc = "planner_call"
  /\ approvalResolver
  /\ context.live
  /\ IsSubmit(lastCall)

\* C8: cancel() called with no context or with status completed, failed or cancelled
\* changes neither the context (status, completedAt, error) nor the event stream.
C8_CancelWhenTerminal ==
  [][(lastCall'.op = "cancel"
        /\ (~context.live \/ context.status \in {"completed", "failed", "cancelled"}))
       => UNCHANGED <<context, events>>]_vars

\* C9: executeCoder never makes more than maxHealingAttempts generation attempts, starts
\* no attempt after one that passed, and resolves with healingAttempts equal to the number
\* of attempts made: the passing attempt with success = true, or maxHealingAttempts with
\* success = false when none passed.
C9_BoundedHealing ==
  /\ [](attempts <= execConfig.maxHealingAttempts)
  /\ []((epc = "done" /\ result.role = "coder")
          => /\ attempts >= 1
             /\ result.healingAttempts = attempts
             /\ result.success = result.passed
             /\ ~result.passed => attempts = execConfig.maxHealingAttempts)
  /\ [][attempts' = attempts + 1 => (attempts = 0 \/ ~result.passed)]_vars

\* the second of three allowed attempts passed validation
C9_Witness ==
  /\ epc = "done"
  /\ result.role = "coder"
  /\ ~execConfig.simulate
  /\ execConfig.maxHealingAttempts = 3
  /\ result.success
  /\ result.healingAttempts = 2

\* C10: when the last attempt of the implementation stage of a run failed validation, the
\* result has success = false, nextStep = user_intervention and healingAttempts equal to
\* the configured maxHealingAttempts, healing:failed and agent:failed (coder) were
\* emitted, neither the reviewer nor the commit skill was started, and the Summary has
\* status failed and an error.
C10_Exhaustion ==
  (summary.returned /\ context.live /\ context.coder.present /\ ~context.coder.passed)
    => /\ ~context.coder.success
       /\ context.coder.nextStep = "user_intervention"
       /\ context.coder.healingAttempts = config.maxHealingAttempts
       /\ Emitted(Ev("healing:failed", "none"))
       /\ Emitted(Ev("agent:failed", "coder"))
       /\ ~Emitted(Ev("agent:started", "reviewer"))
       /\ ~EmittedType("skill:started")
       /\ summary.status = "failed"
       /\ summary.error # Undefined

\* the same, for the runs whose configured maxHealingAttempts is the executor's default
C10_ExhaustionDefault ==
  config.maxHealingAttempts = DefaultMaxHealingAttempts => C10_Exhaustion

\* C11: the implementation stage of a run makes at most config.maxHealingAttempts
\* generation attempts; when its last attempt failed validation the stored result has
\* healingAttempts equal to config.maxHealingAttempts, and healing:failed has been emitted
\* by the time agent:failed is.
C11_RetryBudget ==
  /\ pc = "coder_call" => attempts <= config.maxHealingAttempts
  /\ (context.live /\ context.coder.present /\ ~context.coder.passed)
       => context.coder.healingAttempts = config.maxHealingAttempts
  /\ (context.live /\ context.coder.present /\ ~context.coder.passed
        /\ Emitted(Ev("agent:failed", "coder")))
       => Emitted(Ev("healing:failed", "none"))

\* the same, for the engines whose maxHealingAttempts is the executor's default
C11_RetryBudgetDefault ==
  config.maxHealingAttempts = DefaultMaxHealingAttempts => C11_RetryBudget

\* C12: executeCoder called without a Plan rejects with 'Coder requires an approved plan';
\* called with a Plan that is pending, rejected or needs_revision it rejects with the
\* different error 'Plan must be approved before execution'; in both cases no attempt is
\* made and the executor's status and current agent stay as they were.
C12_CoderPreconditions ==
  /\ [](NoPlanError # NotApprovedError)
  /\ [][(lastCall'.op = "executeCoder" /\ ~lastCall'.plan.present)
          => /\ epc' = "threw"
             /\ thrown' = NoPlanError
             /\ UNCHANGED <<execStatus, currentAgent, attempts>>]_vars
  /\ [][(lastCall'.op = "executeCoder" /\ lastCall'.plan.present
           /\ lastCall'.plan.approvalStatus \in {"pending", "rejected", "needs_revision"})
          => /\ epc' = "threw"
             /\ thrown' = NotApprovedError
             /\ UNCHANGED <<execStatus, currentAgent, attempts>>]_vars
  /\ []((epc = "threw" /\ thrown \in {NoPlanError, NotApprovedError}) => attempts = 0)
  /\ [][(epc = "threw" /\ thrown \in {NoPlanError, NotApprovedError})
          => UNCHANGED <<execStatus, currentAgent, attempts>>]_vars

\* after a call that ran, executeCoder is called with a Plan awaiting revision and rejects
C12_Witness ==
  /\ epc = "threw"
  /\ thrown = NotApprovedError
  /\ lastCall.op = "executeCoder"
  /\ lastCall.plan.approvalStatus = "needs_revision"
  /\ execStatus \in {"completed", "failed"}
  /\ currentAgent = "coder"

\* the result of the stage of a role, and the step of the Summary that reports it
FailedResult(ctx, role) ==
  IF role = "planner" THEN ctx.planner
  ELSE IF role = "coder" THEN ctx.coder ELSE ctx.reviewer
StepOf(steps, role) ==
  IF role = "planner" THEN steps.plan
  ELSE IF role = "coder" THEN steps.implement ELSE steps.review
Roles == {"planner", "coder", "reviewer"}

\* C13: when the stage of a role returned success = false, agent:failed is emitted for
\* that role (for the coder after the healing reports), no agent:started or skill:started
\* follows it, and the Summary start() returns has status failed, a non-empty error, the
\* step of that role failed, with workflow:failed emitted after the agent:failed.
C13_StageFailure ==
  /\ \A role \in Roles :
       (context.live /\ FailedResult(context, role).present
          /\ ~FailedResult(context, role).success
          /\ pc \notin {"healing_reported", "healing_failed_emitted"})
         => Emitted(Ev("agent:failed", role))
  /\ \A i \in 1..Len(events) : \A j \in 1..Len(events) :
       (i < j /\ events[i].type = "agent:failed") => ~PhaseStart(events[j])
  /\ \A role \in Roles :
       (summary.returned /\ context.live /\ Emitted(Ev("agent:failed", role)))
         => /\ summary.status = "failed"
            /\ summary.error \notin {Undefined, ""}
            /\ StepOf(summary.steps, role) = "failed"
            /\ \E i \in 1..Len(events) : \E j \in 1..Len(events) :
                 /\ i < j
                 /\ events[i] = Ev("agent:failed", role)
                 /\ events[j].type = "workflow:failed"

\* start() has returned after the reviewer's output could not be parsed
C13_Witness ==
  /\ summary.returned
  /\ context.live
  /\ context.reviewer.present
  /\ ~context.reviewer.success
  /\ Emitted(Ev("agent:failed", "reviewer"))
  /\ summary.steps.review = "failed"

TerminalStatuses == {"completed", "failed", "cancelled"}
TerminalEventType(status) ==
  IF status = "completed" THEN "workflow:completed"
  ELSE IF status = "failed" THEN "workflow:failed"
  ELSE IF status = "cancelled" THEN "workflow:cancelled"
  ELSE "none"

\* C14: the first event of every run is workflow:started, and at the moment start()
\* returns its Summary the last event emitted is workflow:completed, workflow:failed or
\* workflow:cancelled, the one that corresponds to the Summary's status, whatever cancel()
\* and submitApproval calls were made during the run.
C14_LifecycleEvents ==
  /\ [](Len(events) > 0 => events[1] = Ev("workflow:started", "none"))
  /\ [](context.live => Len(events) > 0)
  /\ [][(summary'.returned /\ ~summary.returned)
          => /\ summary'.status \in TerminalStatuses
             /\ events'[Len(events')].type = TerminalEventType(summary'.status)]_vars

\* a run during which cancel() was called has returned with status completed
C14_Witness ==
  /\ summary.returned
  /\ summary.status = "completed"
  /\ Emitted(ManualCancel)
  /\ events[Len(events)].type = "workflow:completed"

AgentEnd(ev, role) ==
  ev = Ev("agent:completed", role) \/ ev = Ev("agent:failed", role)
AgentStart(ev) == ev.type = "agent:started"

\* C15: between an agent:started of a role and the next agent:started there is an
\* agent:completed or agent:failed of that role, no role gets more than one of them per
\* agent:started, and when start() has returned every agent:started has been followed by
\* the agent:completed or agent:failed of its role.
C15_AgentEventPairing ==
  /\ \A i \in 1..Len(events) : \A j \in 1..Len(events) :
       (i < j /\ AgentStart(events[i]) /\ AgentStart(events[j]))
         => \E k \in (i + 1)..(j - 1) : AgentEnd(events[k], events[i].tag)
  /\ \A role \in Roles :
       Cardinality({k \in 1..Len(events) : AgentEnd(events[k], role)})
         <= Cardinality({i \in 1..Len(events) : events[i] = Ev("agent:started", role)})
  /\ (pc = "returned" /\ context.live)
       => \A i \in 1..Len(events) :
            AgentStart(events[i])
              => \E k \in (i + 1)..Len(events) : AgentEnd(events[k], events[i].tag)

\* the same, for the runs in which no stage call rejected
C15_PairingWithoutThrow ==
  ~Emitted(Ev("workflow:failed", LlmError)) => C15_AgentEventPairing

\* C17: with autoApprove set the status is never awaiting_approval, neither
\* approval:requested nor approval:received is emitted, and from the agent:started of the
\* coder on the stored Plan is approved.
C17_AutoApproveSkipsGate ==
  config.autoApprove
    => /\ context.status # "awaiting_approval"
       /\ ~AtGate
       /\ ~EmittedType("approval:requested")
       /\ ~EmittedType("approval:received")
       /\ (context.live /\ Emitted(Ev("agent:started", "coder")))
            => context.planner.approvalStatus = "approved"

\* the implementation phase of an auto-approved run has emitted agent:started
C17_Witness ==
  /\ config.autoApprove
  /\ pc = "coder_started"
  /\ context.live
  /\ context.status = "implementing"

\* C18: with autoApprove on and autoCommit off the status is never committing and no
\* skill:started or skill:completed is emitted; when planning, implementation and review
\* succeeded the Summary has status completed and steps completed, completed, completed,
\* skipped.
C18_NoAutoCommit ==
  (config.autoApprove /\ ~config.autoCommit)
    => /\ context.status # "committing"
       /\ ~EmittedType("skill:started")
       /\ ~EmittedType("skill:completed")
       /\ (summary.returned /\ context.live /\ context.planner.success
             /\ context.coder.success /\ context.reviewer.success)
            => /\ summary.status = "completed"
               /\ summary.steps = [plan |-> "completed", implement |-> "completed",
                                   review |-> "completed", commit |-> "skipped"]

\* an auto-approved run without autoCommit has returned after three successful stages
C18_Witness ==
  /\ config.autoApprove
  /\ ~config.autoCommit
  /\ summary.returned
  /\ context.live
  /\ context.reviewer.success
  /\ context.reviewer.decision = "approved"
  /\ summary.steps.commit = "skipped"

Rank(status) ==
  IF status = "idle" THEN 0
  ELSE IF status = "planning" THEN 1
  ELSE IF status = "awaiting_approval" THEN 2
  ELSE IF status = "implementing" THEN 3
  ELSE IF status = "reviewing" THEN 4
  ELSE IF status = "committing" THEN 5
  ELSE 6

\* a step inside one run: no new start() and no reset()
SameRun == context.live /\ context'.live /\ runs' = runs

\* C19: within one run the status never moves to an earlier state of idle, planning,
\* awaiting_approval, implementing, reviewing, committing, terminal, and a status that is
\* completed, failed or cancelled stays what it is.
C19_StatusForward ==
  [][SameRun
       => /\ Rank(context'.status) >= Rank(context.status)
          /\ context.status \in TerminalStatuses
               => context'.status = context.status]_vars

\* the same, for the runs in which cancel() has not taken effect
C19_StatusForwardUncancelled ==
  [][(SameRun /\ ~Emitted(ManualCancel))
       => /\ Rank(context'.status) >= Rank(context.status)
          /\ context.status \in TerminalStatuses
               => context'.status = context.status]_vars

\* C16: with autoApprove configured and every stage call settling, a run that has been
\* started returns, and the Summary it returns has status completed or failed.
C16_AutoApproveTerminates ==
  (config.autoApprove /\ pc = "started")
    ~> (pc = "returned" /\ summary.returned /\ summary.status \in {"completed", "failed"})

\* an auto-approved run during which cancel() was called has returned
C16_Witness ==
  /\ config.autoApprove
  /\ pc = "returned"
  /\ summary.returned
  /\ Emitted(ManualCancel)
  /\ summary.status \in {"completed", "failed"}

CountKind(ls, kind) == Cardinality({i \in 1..Len(ls) : ls[i] = kind})
Dispatching == events' # events

\* C20: every exception a listener raises while handling an event is caught by emit()
\* (none is left uncaught), every registered listener receives every event emitted,
\* whatever the listeners before it did, and the engine goes on: the process that runs
\* start() is not ended by a listener's exception.
C20_ListenerIsolation ==
  /\ [](delivery.uncaught = 0)
  /\ [](delivery.process = "running")
  /\ [][Dispatching
          => \A i \in 1..Len(listeners) :
               delivery'.inbox[i] = Append(delivery.inbox[i], events'[Len(events')].type)]_vars

\* the same, for listeners that throw synchronously: each emit() hands the event to every
\* listener, its catch sees one exception per throwing listener, none escapes it, and
\* only the promises of rejecting listeners are left uncaught
C20_SynchronousThrowCaught ==
  /\ [][Dispatching
          => /\ \A i \in 1..Len(listeners) :
                  delivery'.inbox[i] = Append(delivery.inbox[i], events'[Len(events')].type)
             /\ delivery'.caught = delivery.caught + CountKind(listeners, "throws")
             /\ delivery'.uncaught = delivery.uncaught + CountKind(listeners, "rejects")
             /\ delivery'.process = delivery.process]_vars
  /\ [][delivery'.uncaught # delivery.uncaught => CountKind(listeners, "rejects") > 0]_vars

\* C21: within one WorkflowContext the approvalStatus of the stored Plan changes only
\* from pending, and only to approved, rejected or needs_revision; a submitApproval or
\* cancel() call never changes the stored Plan itself, so a status that has left pending
\* is not changed by a later call.
C21_ApprovalStatusOneWay ==
  /\ [][(SameRun /\ context'.planner.approvalStatus # context.planner.approvalStatus)
          => /\ context.planner.approvalStatus = "pending"
             /\ context'.planner.approvalStatus
                  \in {"approved", "rejected", "needs_revision"}]_vars
  /\ [][lastCall'.op \in {"submitApproval", "cancel"}
          => context'.planner = context.planner]_vars
  /\ [][(SameRun /\ context.planner.approvalStatus # "pending")
          => context'.planner.approvalStatus = context.planner.approvalStatus]_vars

\* cancel() is called in a run whose Plan has been approved at the gate
C21_Witness ==
  /\ context.live
  /\ ~config.autoApprove
  /\ context.planner.approvalStatus = "approved"
  /\ lastCall.op = "cancel"
  /\ context.status = "cancelled"

\* what each plan function is to return for a Plan and an argument
ExpectedStatus(op) ==
  IF op = "approvePlan" THEN "approved"
  ELSE IF op = "rejectPlan" THEN "rejected" ELSE "needs_revision"

\* C22: a call of approvePlan, rejectPlan or requestRevision leaves the Plan passed to it
\* as it was and returns a Plan in the function's status; the same function applied with
\* the same argument to that result returns a record equal to it.
C22_PureIdempotent ==
  /\ [][context' = context]_vars
  /\ [][(lastCall'.op \in PlanOps /\ ~lastCall'.again)
          => /\ result'.approvalStatus = ExpectedStatus(lastCall'.op)
             /\ result'.success = context.planner.success
             /\ result'.role = context.planner.role]_vars
  /\ [][(lastCall'.op \in PlanOps /\ lastCall'.again) => result' = result]_vars

\* requestRevision has been applied twice, with a non-empty feedback, to a pending Plan
C22_Witness ==
  /\ lastCall.op = "requestRevision"
  /\ lastCall.again
  /\ lastCall.feedback = "split it"
  /\ context.planner.approvalStatus = "pending"
  /\ result.approvalStatus = "needs_revision"
  /\ result.message = "split it"

\* C23: the pass flag of a validation run is true exactly when the test run, the type
\* check and the lint run all succeeded; a run in which a tool raised an exception has
\* passed = false and the three verdicts false; the attempt's result takes its pass flag
\* from the run, and after such a failed run executeCoder does not reject: it starts the
\* next attempt, or returns success = false when the attempts are used up.
C23_ValidationVerdict ==
  /\ [](validation.ran
          => validation.passed
               = (validation.testsPassed /\ validation.typeCheckPassed
                    /\ validation.lintPassed))
  /\ [](validation.details = ToolException
          => /\ ~validation.passed
             /\ ~validation.testsPassed
             /\ ~validation.typeCheckPassed
             /\ ~validation.lintPassed)
  /\ [][epc = "coder_apply"
          => /\ result'.passed = validation.passed
             /\ result'.success = validation.passed
             /\ result'.healingAttempts = attempts
             /\ epc' # "threw"
             /\ ~validation.passed
                  => epc' = (IF attempts < execConfig.maxHealingAttempts
                             THEN "coder_attempt" ELSE "done")]_vars

\* the first attempt's validation raised an exception and a second attempt is due
C23_Witness ==
  /\ epc = "coder_attempt"
  /\ attempts = 1
  /\ validation.details = ToolException
  /\ result.role = "coder"
  /\ ~result.passed
  /\ execStatus = "running"

\* C25: in a non-simulated attempt the response is generated first, runValidation() comes
\* next and the file changes of the response are written last; the run whose verdict
\* the attempt's result stores has read a working directory without any change of that
\* attempt, and the changes the last attempt wrote are validated by no run.
C25_ValidateBeforeApply ==
  /\ [][(epc = "coder_attempt" /\ ~execConfig.simulate /\ epc' # epc)
          => /\ epc' \in {"coder_validate", "threw"}
             /\ written' = written]_vars
  /\ [][epc = "coder_validate"
          => /\ epc' = "coder_apply"
             /\ written < attempts
             /\ validation'.validated = written
             /\ written' = written]_vars
  /\ [][written' \notin {written, 0}
          => /\ epc = "coder_apply"
             /\ written' = attempts
             /\ validation.ran
             /\ result'.passed = validation.passed]_vars
  /\ [](validation.ran => validation.validated < attempts)
  /\ []((epc = "done" /\ written > 0) => validation.validated < written)

\* the second attempt passed on the files of the first and then wrote its own
C25_Witness ==
  /\ epc = "done"
  /\ ~execConfig.simulate
  /\ result.role = "coder"
  /\ result.success
  /\ attempts = 2
  /\ written = 2
  /\ validation.validated = 1

\* the heading line the plan template writes for a title: "## 작업 계획: " and the title
HeadingOf(title) == <<":", " ">> \o title

\* the titles a heading of at most MaxTail characters after "계획" can carry
Titles == {t \in Tails : Len(t) \in 1..(MaxTail - 2) /\ trim(t) = t}

HeadingOnly(markdown) ==
  /\ markdown.heading # NoHeading
  /\ markdown.affectedFiles = 0
  /\ markdown.phases = 0
  /\ markdown.risks = 0

Parsed == lastCall.op = "parse" /\ lastCall.returned

\* C24: the parser returns, never throws; success is false exactly when it located no
\* title heading and parsed no affected file and no phase, and the failed result has
\* empty affectedFiles, phases and risks; a text that is only the heading line of a title
\* gives success = true, empty lists and that title, character for character.
C24_HeadingRoundTrip ==
  Parsed =>
    /\ thrown = NoError
    /\ ~result.success
         <=> /\ ~titleMatch(lastCall.markdown.heading).matched
             /\ lastCall.markdown.affectedFiles = 0
             /\ lastCall.markdown.phases = 0
    /\ ~result.success
         => result.affectedFiles = 0 /\ result.phases = 0 /\ result.risks = 0
    /\ \A title \in Titles :
         (HeadingOnly(lastCall.markdown) /\ lastCall.markdown.heading = HeadingOf(title))
           => /\ result.success
              /\ result.title = title
              /\ result.affectedFiles = 0 /\ result.phases = 0 /\ result.risks = 0

\* the same, for the titles that do not begin with a colon
C24_RoundTripWithoutLeadingColon ==
  Parsed =>
    /\ thrown = NoError
    /\ ~result.success
         <=> /\ ~titleMatch(lastCall.markdown.heading).matched
             /\ lastCall.markdown.affectedFiles = 0
             /\ lastCall.markdown.phases = 0
    /\ ~result.success
         => result.affectedFiles = 0 /\ result.phases = 0 /\ result.risks = 0
    /\ \A title \in Titles :
         (HeadingOnly(lastCall.markdown) /\ lastCall.markdown.heading = HeadingOf(title)
            /\ title[1] # ":")
           => /\ result.success
              /\ result.title = title
              /\ result.affectedFiles = 0 /\ result.phases = 0 /\ result.risks = 0

\* C26: a WorkflowContext whose status is completed, failed or cancelled has its
\* completedAt set.
C26_CompletedAtSet ==
  (context.live /\ context.status \in TerminalStatuses) => context.completedAt > 0

HealingSucceeded == Ev("healing:succeeded", "none")
HealingFailed == Ev("healing:failed", "none")

\* C27: healing:succeeded is emitted only when the stored Implementation result has
\* success = true and more than one attempt, healing:failed only when the stored result
\* failed with all attempts of the executor used, and no run emits both.
C27_HealingEvents ==
  context.live =>
    /\ Emitted(HealingSucceeded)
         => /\ context.coder.present
            /\ context.coder.success
            /\ context.coder.healingAttempts > 1
    /\ Emitted(HealingFailed)
         => /\ context.coder.present
            /\ ~context.coder.success
            /\ context.coder.healingAttempts >= execConfig.maxHealingAttempts
    /\ ~(Emitted(HealingSucceeded) /\ Emitted(HealingFailed))

\* the same without the success of the result: healing:succeeded only after more than
\* one attempt, healing:failed only on a failed result with the attempts used up
C27_HealingEventsByAttempts ==
  context.live =>
    /\ Emitted(HealingSucceeded)
         => context.coder.present /\ context.coder.healingAttempts > 1
    /\ Emitted(HealingFailed)
         => /\ context.coder.present
            /\ ~context.coder.success
            /\ context.coder.healingAttempts >= execConfig.maxHealingAttempts

\* C28: whenever reset() is called, start() neither rejects nor is left waiting for an
\* approval that no submitApproval can deliver any more.
C28_ResetSettles ==
  /\ pc # "rejected"
  /\ ~(pc = "approval_wait" /\ approvalPromise.state = "pending" /\ ~approvalResolver)

Before(evs, first, second) ==
  \E i \in 1..Len(evs) : \E j \in (i + 1)..Len(evs) :
    evs[i] = first /\ evs[j] = second

SkillFailed == Ev("skill:failed", "commit")
WorkflowCompleted == Ev("workflow:completed", "none")

\* C29: when executeCommit returns success = false the commit phase emits skill:failed
\* and start() goes on to its completion block: workflow:completed follows, and the
\* Summary returned has status completed, no error and the commit step failed.
C29_FailedCommitCompletes ==
  /\ [][(pc = "commit_call" /\ pc' # pc /\ context.live /\ ~context'.commit.success)
          => /\ pc' = "commit_done"
             /\ events' = Append(events, SkillFailed)]_vars
  /\ [][(pc = "commit_done" /\ pc' # pc /\ context.live)
          => /\ pc' = "completed_emitted"
             /\ events' = Append(events, WorkflowCompleted)
             /\ context'.status = "completed"]_vars
  /\ []((pc = "returned" /\ summary.returned /\ context.live
           /\ context.commit.present /\ ~context.commit.success)
          => /\ Before(events, SkillFailed, WorkflowCompleted)
             /\ ~EmittedType("workflow:failed")
             /\ summary.status = "completed"
             /\ summary.error = Undefined
             /\ summary.steps.commit = "failed")

\* start() has returned after a commit that found nothing to commit
C29_Witness ==
  /\ pc = "returned"
  /\ summary.returned
  /\ context.live
  /\ context.commit.error = NoChangesError
  /\ summary.status = "completed"
  /\ summary.steps.commit = "failed"

ReviewApproved(ctx) ==
  ctx.reviewer.present /\ ctx.reviewer.success /\ ctx.reviewer.decision = "approved"

\* C30: with autoCommit on, skill:started is emitted only in a run whose review
\* succeeded with decision approved, and a run that went past such a review has emitted
\* it; a run whose review succeeded with decision conditional or rejected returns a
\* Summary with status completed and the commit step pending, and no skill:started.
C30_CommitIffApproved ==
  (config.autoCommit /\ context.live) =>
    /\ EmittedType("skill:started") => ReviewApproved(context)
    /\ (ReviewApproved(context)
          /\ pc \in {"commit_started", "commit_call", "commit_done", "completed_emitted",
                     "returned"})
         => EmittedType("skill:started")
    /\ (pc = "returned" /\ summary.returned /\ context.reviewer.present
          /\ context.reviewer.success
          /\ context.reviewer.decision \in {"conditional", "rejected"})
         => /\ ~EmittedType("skill:started")
            /\ ~context.commit.present
            /\ summary.status = "completed"
            /\ summary.steps.commit = "pending"

\* with autoCommit on, start() has returned after a review with decision conditional
C30_Witness ==
  /\ config.autoCommit
  /\ pc = "returned"
  /\ summary.returned
  /\ context.live
  /\ context.reviewer.success
  /\ context.reviewer.decision = "conditional"
  /\ summary.status = "completed"
  /\ summary.steps.commit = "pending"

====
